---- MODULE Spec2Model ----
(***************************************************************************)
(* Fork-join computation of pi (pi_p.c) and its sequential reference       *)
(* (pi.c).  The coordinator (main and calcular_pi_paralelo) and every      *)
(* worker thread (trabajo_suma_parcial) advance one statement group at a   *)
(* time; failures of malloc, pthread_create and pthread_join are choices   *)
(* of the environment.                                                     *)
(*                                                                         *)
(* Numbers.  A double is modelled as a fixed-point number with Escala      *)
(* units per 1.0; additions are exact.  The step paso = 1.0 / n is kept    *)
(* as its denominator n.  A command-line number is the pair <<q, r>>       *)
(* standing for q * 2^31 + r with 0 <= r < 2^31, so that values outside    *)
(* the range of int can be supplied.                                       *)
(***************************************************************************)
EXTENDS Integers, Sequences, FiniteSets, TLC

\* ---- bounds of the model ----
MaxN == 3
MaxH == 2
\* the integer arithmetic is followed Cerca steps around each end of a range,
\* and for at most MaxPasos iterations of one worker loop
Cerca == 2
MaxPasos == 3
\* and for at most MaxVueltas iterations of the launch loop
MaxVueltas == 2
\* the largest number of Fibonacci terms asked for
MaxFib == 95

\* ---- program constants ----
N_INTERVALOS_POR_DEFECTO == 2000000000
HILOS_POR_DEFECTO == 4
INT_MAX == 2147483647
INT_MIN == (0 - 2147483647) - 1
Escala == 1000

\* ---- command-line arguments ----
Ausente == <<"ausente">>
NoNumerico == <<"texto">>

\* the mathematical integer v, for v in the range of int
Num(v) == IF v >= 0 THEN <<0, v>> ELSE <<-1, (v + INT_MAX) + 1>>

EsNumero(a) == Len(a) = 2

\* the supplied value is <= 0
NoPositivo(a) == EsNumero(a) /\ (a[1] < 0 \/ (a[1] = 0 /\ a[2] = 0))

\* the supplied value is outside [1, 2^31 - 1]
FueraDeRango(a) == EsNumero(a) /\ (a[1] # 0 \/ a[2] = 0)

ArgsH ==
    {Ausente, NoNumerico} \cup {Num(v) : v \in {-3, 0} \cup 1..MaxH}
        \cup {<<-2, 2>>, <<2, 1>>}

ArgsN ==
    {Ausente, NoNumerico} \cup {Num(v) : v \in 0..MaxN} \cup {Num(-5)}
        \cup {<<1, 0>>, <<2, 0>>, <<2, 1>>, <<-2, 2>>, <<3, 1>>}

\* width in bits of long, which decides what atoi returns for a value
\* that does not fit in int
ABIs == {32, 64}

\* (int) strtol(s, NULL, 10): strtol saturates at the range of long; with a
\* 64-bit long the conversion to int keeps the low 32 bits
atoi(a, longBits) ==
    IF ~EsNumero(a) THEN 0
    ELSE IF a[1] = 0 THEN a[2]
    ELSE IF a[1] = -1 THEN (a[2] - INT_MAX) - 1
    ELSE IF longBits = 32 THEN (IF a[1] > 0 THEN INT_MAX ELSE INT_MIN)
    ELSE IF a[1] % 2 = 0 THEN a[2]
    ELSE (a[2] - INT_MAX) - 1

\* ---- arithmetic of the integration ----
\* 4.0 / (1.0 + x * x) at x = paso * (i + 0.5), paso = 1 / den
funcion_integrando(i, den) ==
    (Escala * 16 * den * den) \div (4 * den * den + (2 * i + 1) * (2 * i + 1))

\* paso * suma
Escalar(den, suma) == suma \div den

RECURSIVE SumaHasta(_, _)
\* the accumulation loop of calcular_pi_secuencial after k iterations
SumaHasta(k, n) ==
    IF k = 0 THEN 0 ELSE SumaHasta(k - 1, n) + funcion_integrando(k - 1, n)

calcular_pi_secuencial(n) == Escalar(n, SumaHasta(n, n))

\* ---- partitioning ----
TamBloque(n, nh) == n \div nh
Resto(n, nh) == n % nh
ExtraSiempre(k, resto) == 1
ExtraDeMas(k, resto) == IF k <= resto THEN 1 ELSE 0
Extra(k, resto) == IF k < resto THEN 1 ELSE 0

VARIABLES
    argv,               \* <<argv[1], argv[2]>>
    numero_hilos,
    numero_intervalos,
    pc,                 \* position of the main thread
    h,                  \* loop variable of the launch and of the join loop
    j,                  \* loop variable of the join loop of the abort path
    inicio_actual,
    datos_hilos,        \* the DatosHilo array
    asignado,           \* "no", "vivo", "liberado": the two malloc'ed arrays
    hilo,               \* per thread: position, i, suma_local
    celda,              \* per thread: the malloc'ed double it returns
    codigo_join,        \* per thread: what the joins on it returned
    retorno,            \* what the last successful join stored
    suma_global,
    leido,              \* per thread: times the main thread read its result
    evaluaciones,       \* per index: times the integrand was evaluated at it
    salida,             \* the approximations printed, as a sequence
    estado_salida,      \* "ninguno", "EXIT_SUCCESS", "EXIT_FAILURE"
    arit,               \* the int variables of one partition, at full width
    fib                 \* one run of fibonacci.c

\* the variables of one run of pi_p at the small sizes
varsPi == <<argv, numero_hilos, numero_intervalos, pc, h, j, inicio_actual,
            datos_hilos, asignado, hilo, celda, codigo_join, retorno,
            suma_global, leido, evaluaciones, salida, estado_salida>>

vars == <<varsPi, arit, fib>>

Hilos == 0..(MaxH - 1)
Indices == 0..(MaxN - 1)

SinDatos == [indice_inicio |-> -1, indice_fin |-> -1, paso |-> -1]
HiloNoCreado ==
    [st |-> "no_creado", arg |-> -1, i |-> 0, suma_local |-> 0, ret |-> "NULL"]
SinCelda == [st |-> "no", valor |-> 0, escrituras |-> 0, liberaciones |-> 0]

SinArit ==
    [fase |-> "inactivo", n |-> 0, nh |-> 0, k |-> 0, inicio_actual |-> 0,
     indice_inicio |-> 0, indice_fin |-> 0, i |-> 0, pasos |-> 0,
     vueltas |-> 0, desborde |-> FALSE]

InitPi ==
    /\ argv \in {a \in ArgsH \X ArgsN : a[1] = Ausente => a[2] = Ausente}
    /\ numero_hilos = HILOS_POR_DEFECTO
    /\ numero_intervalos = N_INTERVALOS_POR_DEFECTO
    /\ pc = "main"
    /\ h = 0
    /\ j = 0
    /\ inicio_actual = 0
    /\ datos_hilos = [k \in Hilos |-> SinDatos]
    /\ asignado = "no"
    /\ hilo = [k \in Hilos |-> HiloNoCreado]
    /\ celda = [k \in Hilos |-> SinCelda]
    /\ codigo_join = [k \in Hilos |-> <<>>]
    /\ retorno = "NULL"
    /\ suma_global = 0
    /\ leido = [k \in Hilos |-> 0]
    /\ evaluaciones = [i \in Indices |-> 0]
    /\ salida = <<>>
    /\ estado_salida = "ninguno"

\* fibonacci.c is not running
SinFib ==
    [fase |-> "inactivo", cantidad |-> 0, memoria |-> "no",
     arreglo |-> <<>>,
     hilo |-> [st |-> "no_creado", cantidad |-> 0, i |-> 0],
     codigo |-> "ninguno", ip |-> 0, impreso |-> <<>>, estado |-> "ninguno"]

Init ==
    /\ InitPi
    /\ arit = SinArit
    /\ fib = SinFib

\* ---- main, up to the call of calcular_pi_paralelo ----
HilosLeidos(a, longBits) ==
    IF a = Ausente THEN HILOS_POR_DEFECTO ELSE atoi(a, longBits)

IntervalosLeidos(a, longBits) ==
    IF a = Ausente THEN N_INTERVALOS_POR_DEFECTO ELSE atoi(a, longBits)

HilosCorregidos(nh) == IF nh <= 0 THEN 1 ELSE nh

IntervalosInvalidos(n) == n <= 0 \/ n > INT_MAX

MainArgumentos ==
    /\ pc = "main"
    /\ \E longBits \in ABIs :
        /\ numero_hilos' = HilosCorregidos(HilosLeidos(argv[1], longBits))
        /\ numero_intervalos' = IntervalosLeidos(argv[2], longBits)
    /\ IF IntervalosInvalidos(numero_intervalos')
         THEN pc' = "rechazado" /\ estado_salida' = "EXIT_FAILURE"
         ELSE pc' = "alloc" /\ UNCHANGED estado_salida
    /\ UNCHANGED <<fib, arit, argv, h, j, inicio_actual, datos_hilos, asignado, hilo,
                   celda, codigo_join, retorno, suma_global, leido,
                   evaluaciones, salida>>

\* ---- calcular_pi_paralelo ----
DentroDeCotas == numero_intervalos <= MaxN /\ numero_hilos <= MaxH

ReservarArreglos ==
    /\ pc = "alloc"
    /\ DentroDeCotas
    /\ asignado' = "vivo"
    /\ inicio_actual' = 0
    /\ h' = 0
    /\ pc' = "particion"
    /\ UNCHANGED <<fib, arit, argv, numero_hilos, numero_intervalos, j, datos_hilos,
                   hilo, celda, codigo_join, retorno, suma_global, leido,
                   evaluaciones, salida, estado_salida>>

SigueTrasFalloDeReserva == "particion"
\* exit(EXIT_FAILURE) when either malloc returned NULL
TrasFalloDeReserva == "abortado"

ReservarArreglosFalla ==
    /\ pc = "alloc"
    /\ DentroDeCotas
    /\ pc' = TrasFalloDeReserva
    /\ estado_salida' = "EXIT_FAILURE"
    /\ UNCHANGED <<fib, arit, argv, numero_hilos, numero_intervalos, h, j,
                   inicio_actual, datos_hilos, asignado, hilo, celda,
                   codigo_join, retorno, suma_global, leido, evaluaciones,
                   salida>>

DatosSinLlenar(k, inicio, n, nh) == SinDatos
DatosSolapados(k, inicio, n, nh) ==
    [indice_inicio |-> IF k > 0 THEN inicio - 1 ELSE inicio,
     indice_fin |-> inicio + TamBloque(n, nh) + Extra(k, Resto(n, nh)),
     paso |-> n]
\* body of the launch loop up to pthread_create
DatosDe(k, inicio, n, nh) ==
    [indice_inicio |-> inicio,
     indice_fin |-> inicio + TamBloque(n, nh) + Extra(k, Resto(n, nh)),
     paso |-> n]

Particionar ==
    /\ pc = "particion"
    /\ h < numero_hilos
    /\ datos_hilos' = [datos_hilos EXCEPT
           ![h] = DatosDe(h, inicio_actual, numero_intervalos, numero_hilos)]
    /\ inicio_actual' = datos_hilos'[h].indice_fin
    /\ pc' = "crear"
    /\ UNCHANGED <<fib, arit, argv, numero_hilos, numero_intervalos, h, j, asignado,
                   hilo, celda, codigo_join, retorno, suma_global, leido,
                   evaluaciones, salida, estado_salida>>

\* where the main thread goes after the launch loop's ++h
TrasCrear(k) == IF k + 1 < numero_hilos THEN "particion" ELSE "join"

ArgumentoPrimero(k) == 0
\* the argument &datos_hilos[h] handed to pthread_create, as an index
ArgumentoDe(k) == k

CrearHilo ==
    /\ pc = "crear"
    /\ hilo' = [hilo EXCEPT ![h].st = "creado", ![h].arg = ArgumentoDe(h)]
    /\ pc' = TrasCrear(h)
    /\ h' = IF h + 1 < numero_hilos THEN h + 1 ELSE 0
    /\ suma_global' = IF h + 1 < numero_hilos THEN suma_global ELSE 0
    /\ UNCHANGED <<fib, arit, argv, numero_hilos, numero_intervalos, j, inicio_actual,
                   datos_hilos, asignado, celda, codigo_join, retorno, leido,
                   evaluaciones, salida, estado_salida>>

CrearHiloFalla ==
    /\ pc = "crear"
    /\ pc' = "abort_join"
    /\ j' = 0
    /\ UNCHANGED <<fib, arit, argv, numero_hilos, numero_intervalos, h, inicio_actual,
                   datos_hilos, asignado, hilo, celda, codigo_join, retorno,
                   suma_global, leido, evaluaciones, salida, estado_salida>>

JoinNuncaRetorna(k) == FALSE
JoinSinEsperar(k) == hilo[k].st # "no_creado"
\* a join on thread k can return 0 only once the thread has terminated
JoinPuedeRetornar(k) == hilo[k].st = "terminado"

QuedanUnoDeMas(jj, creados) == jj <= creados
\* the test j < h of the join loop of the abort path
QuedanPorUnir(jj, creados) == jj < creados

\* pthread_join(hilos[j], NULL) of the abort path; its code is not looked at
AbortarJoin ==
    /\ pc = "abort_join"
    /\ QuedanPorUnir(j, h)
    /\ \E codigo \in {"ok", "error"} :
        /\ codigo = "ok" => JoinPuedeRetornar(j)
        /\ codigo_join' = [codigo_join EXCEPT ![j] = Append(@, codigo)]
    /\ j' = j + 1
    /\ UNCHANGED <<fib, arit, argv, numero_hilos, numero_intervalos, pc, h,
                   inicio_actual, datos_hilos, asignado, hilo, celda, retorno,
                   suma_global, leido, evaluaciones, salida, estado_salida>>

AbortarLiberar ==
    /\ pc = "abort_join"
    /\ ~QuedanPorUnir(j, h)
    /\ asignado' = "liberado"
    /\ pc' = "abort_exit"
    /\ UNCHANGED <<fib, arit, argv, numero_hilos, numero_intervalos, h, j,
                   inicio_actual, datos_hilos, hilo, celda, codigo_join,
                   retorno, suma_global, leido, evaluaciones, salida,
                   estado_salida>>

AbortarExit ==
    /\ pc = "abort_exit"
    /\ pc' = "abortado"
    /\ estado_salida' = "EXIT_FAILURE"
    /\ UNCHANGED <<fib, arit, argv, numero_hilos, numero_intervalos, h, j,
                   inicio_actual, datos_hilos, asignado, hilo, celda,
                   codigo_join, retorno, suma_global, leido, evaluaciones,
                   salida>>

\* pthread_join(hilos[h], &retorno) returns 0
UnirHilo ==
    /\ pc = "join"
    /\ h < numero_hilos
    /\ JoinPuedeRetornar(h)
    /\ codigo_join' = [codigo_join EXCEPT ![h] = Append(@, "ok")]
    /\ retorno' = hilo[h].ret
    /\ pc' = "plegar"
    /\ UNCHANGED <<fib, arit, argv, numero_hilos, numero_intervalos, h, j,
                   inicio_actual, datos_hilos, asignado, hilo, celda,
                   suma_global, leido, evaluaciones, salida, estado_salida>>

TrasErrorAbandona(k) == numero_hilos
\* the continue after a failed join: on to the loop's ++h
TrasErrorDeJoin(k) == k + 1

\* pthread_join returns an error code: warning and continue
UnirHiloFalla ==
    /\ pc = "join"
    /\ h < numero_hilos
    /\ codigo_join' = [codigo_join EXCEPT ![h] = Append(@, "error")]
    /\ retorno' = "NULL"
    /\ h' = TrasErrorDeJoin(h)
    /\ UNCHANGED <<fib, arit, argv, numero_hilos, numero_intervalos, pc, j,
                   inicio_actual, datos_hilos, asignado, hilo, celda,
                   suma_global, leido, evaluaciones, salida, estado_salida>>

AcumularPisa(suma, parcial) == parcial
\* suma_global += *suma_parcial
Acumular(suma, parcial) == suma + parcial

\* free(suma_parcial)
CeldaLiberada(c) == [c EXCEPT !.st = "liberada", !.liberaciones = @ + 1]

SinAvanzar(k) == k
\* the ++h of the join loop after the fold
TrasPlegar(k) == k + 1

HayResultadoSiempre(ret) == TRUE
\* the test retorno != NULL
HayResultado(ret) == ret # "NULL"

\* the rest of the body of the join loop
Plegar ==
    /\ pc = "plegar"
    /\ IF HayResultado(retorno)
         THEN /\ suma_global' = Acumular(suma_global, celda[h].valor)
              /\ leido' = [leido EXCEPT ![h] = @ + 1]
              /\ celda' = [celda EXCEPT ![h] = CeldaLiberada(@)]
         ELSE UNCHANGED <<suma_global, leido, celda>>
    /\ h' = TrasPlegar(h)
    /\ pc' = "join"
    /\ UNCHANGED <<fib, arit, argv, numero_hilos, numero_intervalos, j, inicio_actual,
                   datos_hilos, asignado, hilo, codigo_join, retorno,
                   evaluaciones, salida, estado_salida>>

Liberar ==
    /\ pc = "join"
    /\ h >= numero_hilos
    /\ asignado' = "liberado"
    /\ pc' = "retornar"
    /\ UNCHANGED <<fib, arit, argv, numero_hilos, numero_intervalos, h, j,
                   inicio_actual, datos_hilos, hilo, celda, codigo_join,
                   retorno, suma_global, leido, evaluaciones, salida,
                   estado_salida>>

\* return paso * suma_global; main prints it and returns EXIT_SUCCESS
Retornar ==
    /\ pc = "retornar"
    /\ salida' = <<Escalar(numero_intervalos, suma_global)>>
    /\ estado_salida' = "EXIT_SUCCESS"
    /\ pc' = "terminado"
    /\ UNCHANGED <<fib, arit, argv, numero_hilos, numero_intervalos, h, j,
                   inicio_actual, datos_hilos, asignado, hilo, celda,
                   codigo_join, retorno, suma_global, leido, evaluaciones>>

\* ---- trabajo_suma_parcial, thread k ----
ProcesoVivo == pc \notin {"rechazado", "abortado", "terminado"}

\* what thread k finds behind its argument pointer; once the array has been
\* freed the read is of freed memory and may yield anything
Basura ==
    {[indice_inicio |-> a, indice_fin |-> b, paso |-> p] :
        a \in {0}, b \in {0, MaxN}, p \in {1}}

LeerDatos(k) ==
    IF asignado = "vivo" THEN {datos_hilos[hilo[k].arg]} ELSE Basura

HiloInicia(k) ==
    /\ ProcesoVivo
    /\ hilo[k].st = "creado"
    /\ \E datos \in LeerDatos(k) :
        hilo' = [hilo EXCEPT ![k].st = "bucle",
                             ![k].i = datos.indice_inicio,
                             ![k].suma_local = 0]
    /\ UNCHANGED <<fib, arit, argv, numero_hilos, numero_intervalos, pc, h, j,
                   inicio_actual, datos_hilos, asignado, celda, codigo_join,
                   retorno, suma_global, leido, evaluaciones, salida,
                   estado_salida>>

SigueBucleUnoMas(i, fin) == i <= fin
\* the loop test i < datos->indice_fin
SigueBucle(i, fin) == i < fin

HiloItera(k) ==
    /\ ProcesoVivo
    /\ hilo[k].st = "bucle"
    /\ \E datos \in LeerDatos(k) :
        /\ SigueBucle(hilo[k].i, datos.indice_fin)
        /\ hilo' = [hilo EXCEPT
               ![k].suma_local = @ + funcion_integrando(hilo[k].i, datos.paso),
               ![k].i = @ + 1]
        /\ evaluaciones' = [evaluaciones EXCEPT ![hilo[k].i] = @ + 1]
    /\ UNCHANGED <<fib, arit, argv, numero_hilos, numero_intervalos, pc, h, j,
                   inicio_actual, datos_hilos, asignado, celda, codigo_join,
                   retorno, suma_global, leido, salida, estado_salida>>

\* the loop ends and malloc succeeds: *resultado = suma_local;
\* pthread_exit(resultado)
HiloEntrega(k) ==
    /\ ProcesoVivo
    /\ hilo[k].st = "bucle"
    /\ \E datos \in LeerDatos(k) : ~SigueBucle(hilo[k].i, datos.indice_fin)
    /\ celda' = [celda EXCEPT ![k].st = "viva",
                               ![k].valor = hilo[k].suma_local,
                               ![k].escrituras = @ + 1]
    /\ hilo' = [hilo EXCEPT ![k].st = "terminado", ![k].ret = "celda"]
    /\ UNCHANGED <<fib, arit, argv, numero_hilos, numero_intervalos, pc, h, j,
                   inicio_actual, datos_hilos, asignado, codigo_join, retorno,
                   suma_global, leido, evaluaciones, salida, estado_salida>>

\* the loop ends and malloc fails: pthread_exit(NULL)
HiloSinMemoria(k) ==
    /\ ProcesoVivo
    /\ hilo[k].st = "bucle"
    /\ \E datos \in LeerDatos(k) : ~SigueBucle(hilo[k].i, datos.indice_fin)
    /\ hilo' = [hilo EXCEPT ![k].st = "terminado", ![k].ret = "NULL"]
    /\ UNCHANGED <<fib, arit, argv, numero_hilos, numero_intervalos, pc, h, j,
                   inicio_actual, datos_hilos, asignado, celda, codigo_join,
                   retorno, suma_global, leido, evaluaciones, salida,
                   estado_salida>>

Next ==
    \/ MainArgumentos
    \/ ReservarArreglos
    \/ ReservarArreglosFalla
    \/ Particionar
    \/ CrearHilo
    \/ CrearHiloFalla
    \/ AbortarJoin
    \/ AbortarLiberar
    \/ AbortarExit
    \/ UnirHilo
    \/ UnirHiloFalla
    \/ Plegar
    \/ Liberar
    \/ Retornar
    \/ \E k \in Hilos : HiloInicia(k)
    \/ \E k \in Hilos : HiloItera(k)
    \/ \E k \in Hilos : HiloEntrega(k)
    \/ \E k \in Hilos : HiloSinMemoria(k)

Spec == Init /\ [][Next]_vars

\* ---- scheduling ----
\* the steps of worker thread k
Trabajador(k) ==
    \/ HiloInicia(k)
    \/ HiloItera(k)
    \/ HiloEntrega(k)
    \/ HiloSinMemoria(k)

\* the steps the main thread takes by itself; an error code returned by
\* pthread_join is an event of the environment and is not among them
Principal ==
    \/ MainArgumentos
    \/ ReservarArreglos
    \/ ReservarArreglosFalla
    \/ Particionar
    \/ CrearHilo
    \/ CrearHiloFalla
    \/ (AbortarJoin /\ JoinPuedeRetornar(j))
    \/ AbortarLiberar
    \/ AbortarExit
    \/ UnirHilo
    \/ Plegar
    \/ Liberar
    \/ Retornar

\* every thread that can run is eventually scheduled
FairSpec ==
    /\ Spec
    /\ WF_vars(Principal)
    /\ \A k \in Hilos : WF_vars(Trabajador(k))

\* ---- the int arithmetic of the partition and of the worker loop ----
\* int + int: the exact sum when it fits in 32 bits; otherwise the behaviour
\* is undefined, any value may result and the overflow is recorded
Suma32(a, b) ==
    IF b > 0 /\ a > INT_MAX - b
    THEN {[valor |-> v, desborde |-> TRUE] :
            v \in {(a - INT_MAX - 1) + (b - INT_MAX - 1), INT_MAX, INT_MIN, 0}}
    ELSE IF b < 0 /\ a < INT_MIN - b
    THEN {[valor |-> v, desborde |-> TRUE] :
            v \in {(a + INT_MAX + 1) + (b + INT_MAX + 1), INT_MAX, INT_MIN, 0}}
    ELSE {[valor |-> a + b, desborde |-> FALSE]}

Minimo(a, b) == IF a <= b THEN a ELSE b

\* inicio_actual at the top of iteration k of the launch loop
InicioEnVuelta(k, n, nh) ==
    k * TamBloque(n, nh) + Minimo(k, Resto(n, nh))

\* values of n: the small ones and those next to INT_MAX
NsArit == (1..MaxN) \cup {INT_MAX - d : d \in 0..Cerca}
HsArit == (1..MaxH) \cup {INT_MAX - d : d \in 0..Cerca}
\* iterations of the launch loop at which the arithmetic is picked up
VueltasArit(n, nh) ==
    {k \in {0, Resto(n, nh) - 1, Resto(n, nh), nh - 1} : 0 <= k /\ k < nh}
\* values of the loop counter at which a worker is picked up
ContadoresArit(ini, fin) ==
    {ini + d : d \in {e \in 0..Cerca : e <= fin - ini}}
        \cup {fin - d : d \in {e \in 0..Cerca : e <= fin - ini}}

EnParticion(n, nh, k) ==
    [fase |-> "particion", n |-> n, nh |-> nh, k |-> k,
     inicio_actual |-> InicioEnVuelta(k, n, nh),
     indice_inicio |-> 0, indice_fin |-> 0, i |-> 0, pasos |-> 0,
     vueltas |-> 0, desborde |-> FALSE]
EnHilo(n, nh, k, i) ==
    [fase |-> "hilo", n |-> n, nh |-> nh, k |-> k,
     inicio_actual |-> InicioEnVuelta(k + 1, n, nh),
     indice_inicio |-> InicioEnVuelta(k, n, nh),
     indice_fin |-> InicioEnVuelta(k + 1, n, nh), i |-> i, pasos |-> 0,
     vueltas |-> 0, desborde |-> FALSE]

\* a run with valid arguments, at some iteration of the launch loop or at
\* some iteration of the loop of one worker
InitAritmetica ==
    /\ InitPi
    /\ argv = <<Ausente, Ausente>>
    /\ fib = SinFib
    /\ \E n \in NsArit, nh \in HsArit :
        \E k \in VueltasArit(n, nh) :
            \/ arit = EnParticion(n, nh, k)
            \/ \E i \in ContadoresArit(InicioEnVuelta(k, n, nh),
                                        InicioEnVuelta(k + 1, n, nh)) :
                   arit = EnHilo(n, nh, k, i)

\* one iteration of the launch loop; the worker starts at indice_inicio
AritParticionar ==
    /\ arit.fase = "particion"
    /\ arit.k < arit.nh
    /\ arit.vueltas < MaxVueltas
    /\ \E s \in Suma32(arit.inicio_actual, TamBloque(arit.n, arit.nh)) :
        \E f \in Suma32(s.valor, Extra(arit.k, Resto(arit.n, arit.nh))) :
            arit' = [arit EXCEPT
                        !.fase = "hilo",
                        !.indice_inicio = arit.inicio_actual,
                        !.indice_fin = f.valor,
                        !.inicio_actual = f.valor,
                        !.i = arit.inicio_actual,
                        !.pasos = 0,
                        !.vueltas = @ + 1,
                        !.desborde = @ \/ s.desborde \/ f.desborde]
    /\ UNCHANGED <<varsPi, fib>>

\* one iteration of the worker loop: ++i
AritHiloItera ==
    /\ arit.fase = "hilo"
    /\ arit.pasos < MaxPasos
    /\ SigueBucle(arit.i, arit.indice_fin)
    /\ \E s \in Suma32(arit.i, 1) :
        arit' = [arit EXCEPT !.i = s.valor,
                             !.pasos = @ + 1,
                             !.desborde = @ \/ s.desborde]
    /\ UNCHANGED <<varsPi, fib>>

\* the worker loop ends; ++h
AritHiloSale ==
    /\ arit.fase = "hilo"
    /\ ~SigueBucle(arit.i, arit.indice_fin)
    /\ \E s \in Suma32(arit.k, 1) :
        arit' = [arit EXCEPT !.fase = "particion",
                             !.k = s.valor,
                             !.pasos = 0,
                             !.desborde = @ \/ s.desborde]
    /\ UNCHANGED <<varsPi, fib>>

\* h < numero_hilos is false: the launch loop ends
AritFin ==
    /\ arit.fase = "particion"
    /\ ~(arit.k < arit.nh)
    /\ arit' = [arit EXCEPT !.fase = "fin"]
    /\ UNCHANGED <<varsPi, fib>>

NextAritmetica ==
    \/ AritParticionar
    \/ AritHiloItera
    \/ AritHiloSale
    \/ AritFin

SpecAritmetica == InitAritmetica /\ [][NextAritmetica]_vars

\* ---- fibonacci.c ----
\* tipo_fibonacci is unsigned long long: 64 bits, kept as four digits in base
\* 2^16, least significant first
Base == 65536
Cero64 == <<0, 0, 0, 0>>
Uno64 == <<1, 0, 0, 0>>
\* the content of a slot that was never written
SinValor == <<>>

\* unsigned addition: the carry out of the last digit is dropped
Suma64(a, b) ==
    LET s1 == a[1] + b[1]
        s2 == a[2] + b[2] + (s1 \div Base)
        s3 == a[3] + b[3] + (s2 \div Base)
        s4 == a[4] + b[4] + (s3 \div Base)
    IN  <<s1 % Base, s2 % Base, s3 % Base, s4 % Base>>

Posiciones == 0..(MaxFib - 1)

HiloFibNoCreado == [st |-> "no_creado", cantidad |-> 0, i |-> 0]

FibInicial(c) ==
    [fase |-> "main", cantidad |-> c, memoria |-> "no",
     arreglo |-> [s \in Posiciones |-> [valor |-> SinValor, escrituras |-> 0]],
     hilo |-> HiloFibNoCreado, codigo |-> "ninguno", ip |-> 0,
     impreso |-> <<>>, estado |-> "ninguno"]

InitFib ==
    /\ InitPi
    /\ argv = <<Ausente, Ausente>>
    /\ arit = SinArit
    /\ fib \in {FibInicial(c) : c \in (-1)..MaxFib}

\* the process of fibonacci.c has not returned from main
FibVivo == fib.fase \notin {"inactivo", "fin"}

\* cantidad < 0 is rejected, cantidad == 0 ends at once
FibMain ==
    /\ fib.fase = "main"
    /\ fib' = IF fib.cantidad < 0
              THEN [fib EXCEPT !.fase = "fin", !.estado = "EXIT_FAILURE"]
              ELSE IF fib.cantidad = 0
              THEN [fib EXCEPT !.fase = "fin", !.estado = "EXIT_SUCCESS"]
              ELSE [fib EXCEPT !.fase = "reservar"]
    /\ UNCHANGED <<varsPi, arit>>

\* both malloc calls succeed; the arguments are stored
FibReservar ==
    /\ fib.fase = "reservar"
    /\ fib' = [fib EXCEPT !.fase = "crear", !.memoria = "viva"]
    /\ UNCHANGED <<varsPi, arit>>

\* one of the malloc calls returns NULL
FibReservarFalla ==
    /\ fib.fase = "reservar"
    /\ fib' = [fib EXCEPT !.fase = "fin", !.estado = "EXIT_FAILURE"]
    /\ UNCHANGED <<varsPi, arit>>

FibCrear ==
    /\ fib.fase = "crear"
    /\ fib' = [fib EXCEPT !.fase = "join", !.hilo.st = "creado",
                          !.codigo = "creado"]
    /\ UNCHANGED <<varsPi, arit>>

\* pthread_create fails: both blocks are freed and main returns failure
FibCrearFalla ==
    /\ fib.fase = "crear"
    /\ fib' = [fib EXCEPT !.fase = "fin", !.memoria = "liberada",
                          !.codigo = "error_crear",
                          !.estado = "EXIT_FAILURE"]
    /\ UNCHANGED <<varsPi, arit>>

FibJoinSinEsperar == TRUE
\* pthread_join returns 0 only once the worker has terminated
FibJoinPuedeRetornar == fib.hilo.st = "terminado"

FibJoin ==
    /\ fib.fase = "join"
    /\ FibJoinPuedeRetornar
    /\ fib' = [fib EXCEPT !.fase = "imprimir", !.codigo = "unido", !.ip = 0]
    /\ UNCHANGED <<varsPi, arit>>

\* pthread_join returns an error code, without waiting
FibJoinFalla ==
    /\ fib.fase = "join"
    /\ fib' = [fib EXCEPT !.fase = "liberar", !.codigo = "error_join"]
    /\ UNCHANGED <<varsPi, arit>>

\* one iteration of the printing loop: reads secuencia[i]
FibImprime ==
    /\ fib.fase = "imprimir"
    /\ fib.ip < fib.cantidad
    /\ fib' = [fib EXCEPT !.impreso = Append(@, fib.arreglo[fib.ip].valor),
                          !.ip = @ + 1]
    /\ UNCHANGED <<varsPi, arit>>

FibFinImpresion ==
    /\ fib.fase = "imprimir"
    /\ ~(fib.ip < fib.cantidad)
    /\ fib' = [fib EXCEPT !.fase = "liberar"]
    /\ UNCHANGED <<varsPi, arit>>

\* free(argumentos); free(secuencia)
FibLiberar ==
    /\ fib.fase = "liberar"
    /\ fib' = [fib EXCEPT !.fase = "retornar", !.memoria = "liberada"]
    /\ UNCHANGED <<varsPi, arit>>

FibRetornar ==
    /\ fib.fase = "retornar"
    /\ fib' = [fib EXCEPT !.fase = "fin",
                          !.estado = IF fib.codigo = "unido"
                                     THEN "EXIT_SUCCESS"
                                     ELSE "EXIT_FAILURE"]
    /\ UNCHANGED <<varsPi, arit>>

\* what argumentos->cantidad yields: the stored count, or anything once the
\* block has been freed
FibLeerCantidad ==
    IF fib.memoria = "viva" THEN {fib.cantidad} ELSE {0, 1, MaxFib}

\* the worker reads its arguments; cantidad <= 0 ends it
FibHiloInicia ==
    /\ FibVivo
    /\ fib.hilo.st = "creado"
    /\ \E c \in FibLeerCantidad :
        fib' = [fib EXCEPT !.hilo.cantidad = c,
                           !.hilo.st = IF c <= 0 THEN "terminado"
                                       ELSE "base0"]
    /\ UNCHANGED <<varsPi, arit>>

\* a store into arreglo[s]; a store into a freed block is lost
FibEscribir(s, v) ==
    IF fib.memoria = "viva"
    THEN [fib.arreglo EXCEPT ![s].valor = v, ![s].escrituras = @ + 1]
    ELSE fib.arreglo

\* arreglo[0] = 0
FibHiloBase0 ==
    /\ FibVivo
    /\ fib.hilo.st = "base0"
    /\ fib' = [fib EXCEPT !.arreglo = FibEscribir(0, Cero64),
                          !.hilo.st = "base1"]
    /\ UNCHANGED <<varsPi, arit>>

\* if (cantidad >= 2) arreglo[1] = 1; then i = 2
FibHiloBase1 ==
    /\ FibVivo
    /\ fib.hilo.st = "base1"
    /\ fib' = [fib EXCEPT
                  !.arreglo = IF fib.hilo.cantidad >= 2
                              THEN FibEscribir(1, Uno64)
                              ELSE @,
                  !.hilo.st = "bucle",
                  !.hilo.i = 2]
    /\ UNCHANGED <<varsPi, arit>>

\* the loop test i < cantidad
FibSigue(i, cantidad) == i < cantidad

\* arreglo[i] = arreglo[i - 1] + arreglo[i - 2]; ++i
FibHiloItera ==
    /\ FibVivo
    /\ fib.hilo.st = "bucle"
    /\ FibSigue(fib.hilo.i, fib.hilo.cantidad)
    /\ fib' = [fib EXCEPT
                  !.arreglo =
                      IF fib.memoria = "viva"
                      THEN FibEscribir(fib.hilo.i,
                                       Suma64(fib.arreglo[fib.hilo.i - 1].valor,
                                              fib.arreglo[fib.hilo.i - 2].valor))
                      ELSE @,
                  !.hilo.i = @ + 1]
    /\ UNCHANGED <<varsPi, arit>>

\* pthread_exit(NULL) after the loop
FibHiloTermina ==
    /\ FibVivo
    /\ fib.hilo.st = "bucle"
    /\ ~FibSigue(fib.hilo.i, fib.hilo.cantidad)
    /\ fib' = [fib EXCEPT !.hilo.st = "terminado"]
    /\ UNCHANGED <<varsPi, arit>>

NextFib ==
    \/ FibMain
    \/ FibReservar
    \/ FibReservarFalla
    \/ FibCrear
    \/ FibCrearFalla
    \/ FibJoin
    \/ FibJoinFalla
    \/ FibImprime
    \/ FibFinImpresion
    \/ FibLiberar
    \/ FibRetornar
    \/ FibHiloInicia
    \/ FibHiloBase0
    \/ FibHiloBase1
    \/ FibHiloItera
    \/ FibHiloTermina

SpecFib == InitFib /\ [][NextFib]_vars

\* ---- properties ----
Lanzados == {k \in Hilos : hilo[k].st # "no_creado"}
Construido(k) == datos_hilos[k] # SinDatos
TodosConstruidos == asignado # "no" /\ Construido(numero_hilos - 1)
Tamano(k) == datos_hilos[k].indice_fin - datos_hilos[k].indice_inicio
Rango(k) == datos_hilos[k].indice_inicio .. (datos_hilos[k].indice_fin - 1)
AGGREGATED == pc = "terminado"
ABORTED == pc = "abortado"

\* C1: the WorkItems built so far are contiguous from 0, and once all
\* numero_hilos of them are built the last one ends at n and their ranges
\* are pairwise disjoint and cover [0, n) exactly.
C1_ParticionContigua ==
    asignado # "no" =>
        /\ \A k \in 0..(numero_hilos - 1) :
            Construido(k) =>
                /\ k = 0 => datos_hilos[k].indice_inicio = 0
                /\ k > 0 => /\ Construido(k - 1)
                            /\ datos_hilos[k - 1].indice_fin
                                   = datos_hilos[k].indice_inicio
                /\ datos_hilos[k].indice_inicio <= datos_hilos[k].indice_fin
        /\ TodosConstruidos =>
            /\ datos_hilos[numero_hilos - 1].indice_fin = numero_intervalos
            /\ \A a, b \in 0..(numero_hilos - 1) :
                   a # b => Rango(a) \cap Rango(b) = {}
            /\ UNION {Rango(k) : k \in 0..(numero_hilos - 1)}
                   = 0..(numero_intervalos - 1)

C1_Testigo ==
    /\ TodosConstruidos
    /\ numero_hilos >= 2
    /\ numero_intervalos % numero_hilos # 0
    /\ numero_intervalos > numero_hilos

\* C2: with block = n div h and remainder = n mod h, exactly the WorkItems
\* 0..remainder-1 have block+1 elements and the others have block; when
\* h > n the WorkItems from index n on are empty, when h <= n none is.
C2_TamanosDeBloque ==
    TodosConstruidos =>
        LET n == numero_intervalos
            nh == numero_hilos
            block == n \div nh
            remainder == n % nh
        IN  /\ {k \in 0..(nh - 1) : Tamano(k) = block + 1}
                   = 0..(remainder - 1)
            /\ {k \in 0..(nh - 1) : Tamano(k) = block}
                   = remainder..(nh - 1)
            /\ nh > n => \A k \in n..(nh - 1) : Rango(k) = {}
            /\ nh <= n => \A k \in 0..(nh - 1) : Rango(k) # {}

C2_Testigo ==
    /\ TodosConstruidos
    /\ numero_hilos > numero_intervalos
    /\ Rango(0) # {}
    /\ Rango(numero_hilos - 1) = {}

\* every launch and join succeeded and every worker reported a result
TodoBien ==
    /\ asignado # "no"
    /\ \A k \in 0..(numero_hilos - 1) :
        codigo_join[k] = <<"ok">> /\ hilo[k].ret = "celda"

\* C3: when every launch and join succeeds and every worker reports a result,
\* each index of [0, n) has been evaluated exactly once and the folded sum
\* and the printed value equal those of calcular_pi_secuencial for the same
\* n; with one thread the single WorkItem is [0, n).
C3_IgualQueSecuencial ==
    (pc \in {"retornar", "terminado"} /\ TodoBien) =>
        /\ \A i \in Indices :
            evaluaciones[i] = IF i < numero_intervalos THEN 1 ELSE 0
        /\ suma_global = SumaHasta(numero_intervalos, numero_intervalos)
        /\ pc = "terminado" =>
            salida = <<calcular_pi_secuencial(numero_intervalos)>>
        /\ numero_hilos = 1 =>
            /\ datos_hilos[0].indice_inicio = 0
            /\ datos_hilos[0].indice_fin = numero_intervalos

C3_Testigo ==
    /\ pc = "terminado"
    /\ TodoBien
    /\ numero_hilos >= 2
    /\ numero_intervalos > numero_hilos

\* the main thread is past the call pthread_create that failed
FalloDeLanzamiento ==
    \/ pc \in {"abort_join", "abort_exit"}
    \/ pc = "abortado" /\ asignado = "liberado"

\* C4: if launching task k fails, no further task is launched, every task
\* 0..k-1 is joined and has terminated before the computation aborts with a
\* failure status, nothing is printed and no partial result is folded.
C4_AbortaTrasEsperar ==
    FalloDeLanzamiento =>
        /\ Lanzados = 0..(h - 1)
        /\ suma_global = 0
        /\ \A k \in Hilos : leido[k] = 0
        /\ salida = <<>>
        /\ ABORTED =>
            /\ estado_salida = "EXIT_FAILURE"
            /\ \A k \in 0..(h - 1) :
                Len(codigo_join[k]) = 1 /\ hilo[k].st = "terminado"

\* C5: no task is ever joined more than once or without having been
\* launched, and when the computation has ended (AGGREGATED or ABORTED)
\* every launched task has been joined exactly once.
C5_UnJoinPorLanzado ==
    /\ \A k \in Hilos :
        Len(codigo_join[k]) <= IF k \in Lanzados THEN 1 ELSE 0
    /\ (AGGREGATED \/ ABORTED) =>
        \A k \in Hilos :
            Len(codigo_join[k]) = IF k \in Lanzados THEN 1 ELSE 0

C5_Testigo ==
    /\ ABORTED
    /\ numero_hilos = 2
    /\ Lanzados = {0}
    /\ codigo_join[0] = <<"ok">>
    /\ codigo_join[1] = <<>>

\* C6 as stated: whenever the main thread has read some task's result, no
\* launched task is still running.
C6_LeeTrasTodos ==
    (\E k \in Hilos : leido[k] > 0) =>
        \A m \in Lanzados : hilo[m].st = "terminado"

\* C6, amended: the main thread reads the result of task k only after its
\* join on task k returned 0, that is after task k has terminated and has
\* stored its sum; tasks of larger index may still be running.
C6_LeeTrasSuJoin ==
    /\ \A k \in Hilos :
        leido[k] > 0 => hilo[k].st = "terminado" /\ codigo_join[k] = <<"ok">>
    /\ pc = "plegar" =>
        /\ hilo[h].st = "terminado"
        /\ retorno = hilo[h].ret
        /\ retorno # "NULL" =>
            celda[h].st = "viva" /\ celda[h].valor = hilo[h].suma_local

C6_Testigo ==
    /\ leido[0] = 1
    /\ numero_hilos >= 2
    /\ hilo[1].st = "bucle"
    /\ \A k \in 0..(numero_hilos - 1) : "error" \notin
           {codigo_join[k][x] : x \in 1..Len(codigo_join[k])}

RECURSIVE SumaDe(_, _)
\* the sum of f[k] over the k in S
SumaDe(f, S) ==
    IF S = {} THEN 0
    ELSE LET k == CHOOSE x \in S : TRUE IN f[k] + SumaDe(f, S \ {k})

\* what the loop of a worker adds up over the range of WorkItem k
SumaDelRango(k) ==
    SumaHasta(datos_hilos[k].indice_fin, numero_intervalos)
        - SumaHasta(datos_hilos[k].indice_inicio, numero_intervalos)

\* all launches and joins succeeded and exactly one worker returned NULL
UnoSoloFalla ==
    /\ asignado # "no"
    /\ \A k \in 0..(numero_hilos - 1) : codigo_join[k] = <<"ok">>
    /\ Cardinality({k \in 0..(numero_hilos - 1) : hilo[k].ret = "NULL"}) = 1

\* C7: if exactly one worker returns NULL and all launches and joins
\* succeed, the computation does not abort, and when it ends it has joined
\* every task, exits with success and has printed paso times the sum of the
\* other workers' partial sums.
C7_UnoFallaYSigue ==
    UnoSoloFalla =>
        /\ pc \in {"join", "plegar", "retornar", "terminado"}
        /\ AGGREGATED =>
            LET buenos == {k \in 0..(numero_hilos - 1) : hilo[k].ret # "NULL"}
            IN  /\ estado_salida = "EXIT_SUCCESS"
                /\ suma_global
                       = SumaDe([k \in Hilos |-> SumaDelRango(k)], buenos)
                /\ salida = <<Escalar(numero_intervalos, suma_global)>>
                /\ \A k \in 0..(numero_hilos - 1) :
                       leido[k] = IF k \in buenos THEN 1 ELSE 0

C7_Testigo ==
    /\ AGGREGATED
    /\ UnoSoloFalla
    /\ numero_hilos = 2
    /\ numero_intervalos = 3
    /\ hilo[0].ret = "NULL"

\* C8: a task whose join reported an error contributes nothing to the sum;
\* the main thread goes on to join every remaining task and to fold every
\* result it obtained, and the computation ends with the result printed and
\* a success status; once every task is launched it never aborts.
C8_ErrorDeJoinNoAborta ==
    /\ pc \in {"join", "plegar", "retornar", "terminado"} =>
        /\ \A k \in 0..(numero_hilos - 1) :
            "error" \in {codigo_join[k][x] : x \in 1..Len(codigo_join[k])}
                => leido[k] = 0
        /\ suma_global
               = SumaDe([k \in Hilos |-> celda[k].valor],
                        {k \in Hilos : leido[k] = 1})
        /\ pc \in {"retornar", "terminado"} =>
            \A k \in 0..(numero_hilos - 1) :
                /\ Len(codigo_join[k]) = 1
                /\ (codigo_join[k] = <<"ok">> /\ hilo[k].ret # "NULL")
                       => leido[k] = 1
        /\ AGGREGATED =>
            /\ estado_salida = "EXIT_SUCCESS"
            /\ salida = <<Escalar(numero_intervalos, suma_global)>>
    /\ (asignado # "no" /\ Lanzados = 0..(numero_hilos - 1)) => ~ABORTED

C8_Testigo ==
    /\ AGGREGATED
    /\ numero_hilos = 2
    /\ numero_intervalos >= 2
    /\ codigo_join[0] = <<"error">>
    /\ leido[1] = 1

\* C9: every supplied n that is non-positive or at least 2^31 is rejected
\* with a failure status before anything is allocated, launched or printed.
C9_RechazaFueraDeRango ==
    (pc # "main" /\ FueraDeRango(argv[2])) =>
        /\ pc = "rechazado"
        /\ estado_salida = "EXIT_FAILURE"
        /\ asignado = "no"
        /\ Lanzados = {}
        /\ salida = <<>>

\* C10: for every supplied h <= 0, and for a non-numeric h, the program
\* runs as with h = 1: one task, whose WorkItem is [0, n), and the result of
\* the run with one task.
C10_HilosNoPositivos ==
    (pc # "main" /\ (NoPositivo(argv[1]) \/ argv[1] = NoNumerico)) =>
        /\ numero_hilos = 1
        /\ Lanzados \subseteq {0}
        /\ (asignado # "no" /\ Construido(0)) =>
            /\ datos_hilos[0].indice_inicio = 0
            /\ datos_hilos[0].indice_fin = numero_intervalos
        /\ (AGGREGATED /\ TodoBien) =>
            salida = <<calcular_pi_secuencial(numero_intervalos)>>

\* C11: under fair scheduling every computation with valid n and h ends in
\* AGGREGATED or in ABORTED, and every launched worker leaves its loop and
\* terminates unless the process ends first.
C11_SiempreTermina ==
    /\ (pc = "alloc" /\ DentroDeCotas) ~> (AGGREGATED \/ ABORTED)
    /\ \A k \in Hilos :
        (hilo[k].st \in {"creado", "bucle"})
            ~> (hilo[k].st = "terminado" \/ ~ProcesoVivo)

C11_Testigo ==
    /\ AGGREGATED
    /\ numero_hilos = 2
    /\ numero_intervalos = 3
    /\ codigo_join = [k \in Hilos |-> <<"ok">>]
    /\ hilo[0].ret = "celda"
    /\ hilo[1].ret = "NULL"

\* C12: while the arrays are not allocated nothing is partitioned, launched,
\* folded or printed, and a failed allocation ends the computation in
\* ABORTED with a failure status.
C12_FalloDeReservaAborta ==
    asignado = "no" =>
        /\ pc \in {"main", "alloc", "rechazado", "abortado"}
        /\ Lanzados = {}
        /\ \A k \in Hilos : ~Construido(k)
        /\ suma_global = 0
        /\ salida = <<>>
        /\ ABORTED => estado_salida = "EXIT_FAILURE"

C12_Testigo ==
    /\ ABORTED
    /\ asignado = "no"
    /\ numero_hilos = 2
    /\ numero_intervalos = 3

\* C13 as stated: when the computation has ended, every outcome cell has
\* been written exactly once by its task and read exactly once by the main
\* thread, after the join on that task returned.
C13_UnaEscrituraUnaLectura ==
    /\ \A k \in Hilos :
        /\ celda[k].escrituras <= 1
        /\ leido[k] <= celda[k].escrituras
        /\ leido[k] > 0 => codigo_join[k] = <<"ok">>
    /\ (AGGREGATED \/ ABORTED) =>
        \A k \in Hilos : celda[k].escrituras = 1 => leido[k] = 1

\* C13, amended: every outcome cell is written exactly once by its task,
\* which then terminates; the main thread reads it at most once, never
\* before it is written and only after its join on that task returned 0;
\* it reads it exactly once when that join of the collection loop returned
\* 0, and never after a join error or on the abort path.
C13_EscritaUnaVezLeidaTrasJoin ==
    \A k \in Hilos :
        /\ celda[k].escrituras = IF hilo[k].ret = "celda" THEN 1 ELSE 0
        /\ hilo[k].ret = "celda" => hilo[k].st = "terminado"
        /\ leido[k] <= celda[k].escrituras
        /\ leido[k] > 0 =>
            codigo_join[k] = <<"ok">> /\ hilo[k].st = "terminado"
        /\ (pc \in {"join", "retornar", "terminado"} /\ k < h
                /\ codigo_join[k] = <<"ok">> /\ hilo[k].ret = "celda")
               => leido[k] = 1
        /\ (FalloDeLanzamiento \/ codigo_join[k] # <<"ok">>) => leido[k] = 0

C13_Testigo ==
    /\ AGGREGATED
    /\ numero_hilos = 2
    /\ codigo_join[0] = <<"error">>
    /\ celda[0].escrituras = 1
    /\ leido[0] = 0
    /\ leido[1] = 1

\* C14: every launched worker reads through a pointer to its own WorkItem,
\* which was filled before the launch and is never written afterwards; the
\* WorkItem the main thread is filling belongs to no launched worker.
C14_SinCarreraEnDatos ==
    /\ [](\A k \in Lanzados :
            /\ hilo[k].arg = k
            /\ Construido(k)
            /\ pc \in {"particion", "crear"} => k < h)
    /\ [][\A k \in Hilos :
            hilo[k].st # "no_creado" => datos_hilos'[k] = datos_hilos[k]]_vars

C14_Testigo ==
    /\ pc = "crear"
    /\ h = 1
    /\ hilo[0].st = "bucle"
    /\ hilo[0].i > 0

\* C15 as stated: whenever a task has been launched all numero_hilos
\* WorkItems are already computed.
C15_ParticionAntesDeLanzar == Lanzados # {} => TodosConstruidos

\* C15, amended: WorkItem k is computed immediately before task k is
\* launched: a launched task's WorkItem and those of all lower indices are
\* computed, and WorkItem k (k >= 1) is computed only after tasks 0..k-1 have
\* been launched.
C15_CadaDatoAntesDeSuHilo ==
    asignado # "no" =>
        /\ \A k \in Lanzados : \A m \in 0..k : Construido(m)
        /\ pc = "crear" => Construido(h)
        /\ \A k \in 0..(numero_hilos - 1) :
            Construido(k) => \A m \in 0..(k - 1) : m \in Lanzados

C15_Testigo ==
    /\ numero_hilos = 2
    /\ hilo[0].st = "bucle"
    /\ ~Construido(1)

\* C16 as stated: every cell a worker allocated is folded and then freed
\* exactly once, so that none is live when the computation has ended.
C16_SinCeldasVivasAlFinal ==
    /\ \A k \in Hilos :
        celda[k].liberaciones <= 1 /\ celda[k].liberaciones = leido[k]
    /\ (AGGREGATED \/ ABORTED) =>
        \A k \in Hilos :
            celda[k].escrituras = 1 =>
                celda[k].st = "liberada" /\ leido[k] = 1

\* C17: results are folded in increasing order of task index, and the sum
\* and the printed value are determined by n, the partition and which tasks
\* delivered a result to a successful join, whatever the schedule was.
C17_PliegueDeterminista ==
    /\ [](pc \in {"join", "plegar"} =>
            {k \in Hilos : leido[k] > 0} \subseteq 0..(h - 1))
    /\ [](AGGREGATED =>
            /\ suma_global
                   = SumaDe([k \in Hilos |-> SumaDelRango(k)],
                            {k \in 0..(numero_hilos - 1) :
                                 /\ codigo_join[k] = <<"ok">>
                                 /\ hilo[k].ret = "celda"})
            /\ salida = <<Escalar(numero_intervalos, suma_global)>>)
    /\ [][\A k \in Hilos :
            leido'[k] # leido[k] =>
                /\ k = h
                /\ \A m \in Hilos : m > k => leido[m] = 0]_vars

C17_Testigo ==
    /\ pc = "join"
    /\ h = 0
    /\ numero_hilos = 2
    /\ hilo[0].st = "bucle"
    /\ hilo[1].st = "terminado"
    /\ hilo[1].ret = "celda"

\* C18: whenever the arrays have been freed, every launched worker has
\* terminated.
C18_LiberaTrasTerminar ==
    asignado = "liberado" => \A k \in Lanzados : hilo[k].st = "terminado"

\* C19: with 1 <= n <= 2^31-1 and h >= 1 no int addition overflows:
\* inicio_actual and every indice_fin stay within [0, n], the loop counter of
\* a worker stays within [indice_inicio, indice_fin] and never exceeds n, and
\* the launch loop ends with inicio_actual = n.
C19_SinDesborde ==
    arit.fase # "inactivo" =>
        /\ ~arit.desborde
        /\ 0 <= arit.inicio_actual /\ arit.inicio_actual <= arit.n
        /\ 0 <= arit.k /\ arit.k <= arit.nh
        /\ arit.fase = "hilo" =>
            /\ 0 <= arit.indice_inicio
            /\ arit.indice_inicio <= arit.i
            /\ arit.i <= arit.indice_fin
            /\ arit.indice_fin <= arit.n
            /\ arit.indice_fin
                   = arit.indice_inicio + TamBloque(arit.n, arit.nh)
                         + Extra(arit.k, Resto(arit.n, arit.nh))
        /\ arit.fase = "particion" =>
            arit.inicio_actual = InicioEnVuelta(arit.k, arit.n, arit.nh)
        /\ arit.fase = "fin" => arit.inicio_actual = arit.n

C19_Testigo ==
    /\ arit.fase = "fin"
    /\ arit.n = INT_MAX
    /\ arit.nh = 1
    /\ arit.indice_fin = INT_MAX
    /\ arit.i = INT_MAX

\* the value of a slot as an integer, when it is below 2^30
Pequeno(v) == v[3] = 0 /\ v[4] = 0 /\ v[2] < Base \div 4
Entero(v) == v[1] + v[2] * Base

\* C20: in fibonacci.c main reads the array only after the worker has
\* terminated and pthread_join returned 0; then every slot below cantidad
\* has been written exactly once, slot 0 is 0, slot 1 is 1 and every other
\* slot is the sum modulo 2^64 of the two before it; what is printed is the
\* content of the slots; after a failed pthread_create or pthread_join
\* nothing is printed and main returns EXIT_FAILURE.
C20_FibTrasJoin ==
    fib.fase # "inactivo" =>
        /\ \A s \in Posiciones : fib.arreglo[s].escrituras <= 1
        /\ (fib.impreso # <<>> \/ fib.fase = "imprimir") =>
            /\ fib.hilo.st = "terminado"
            /\ fib.codigo = "unido"
        /\ fib.fase = "imprimir" => fib.memoria = "viva"
        /\ fib.codigo = "unido" =>
            \A s \in Posiciones :
                LET v == fib.arreglo[s].valor IN
                IF s >= fib.cantidad THEN fib.arreglo[s].escrituras = 0
                ELSE /\ fib.arreglo[s].escrituras = 1
                     /\ s = 0 => v = Cero64
                     /\ s = 1 => v = Uno64
                     /\ s >= 2 =>
                         /\ v = Suma64(fib.arreglo[s - 1].valor,
                                       fib.arreglo[s - 2].valor)
                         /\ Pequeno(v) =>
                             Entero(v) = Entero(fib.arreglo[s - 1].valor)
                                           + Entero(fib.arreglo[s - 2].valor)
        /\ \A k \in 1..Len(fib.impreso) :
            fib.impreso[k] = fib.arreglo[k - 1].valor
        /\ (fib.fase = "fin" /\ fib.codigo = "unido") =>
            Len(fib.impreso) = fib.cantidad /\ fib.estado = "EXIT_SUCCESS"
        /\ fib.codigo \in {"error_crear", "error_join"} =>
            /\ fib.impreso = <<>>
            /\ fib.fase = "fin" => fib.estado = "EXIT_FAILURE"

\* a run that printed 95 terms or more: the 95th is F(94) modulo 2^64
C20_Testigo ==
    /\ fib.fase = "fin"
    /\ fib.codigo = "unido"
    /\ fib.cantidad >= 95
    /\ Len(fib.impreso) = fib.cantidad
    /\ fib.impreso[95] = <<63167, 33803, 35536, 4595>>
====
